---------------------------- MODULE Spec2Model ----------------------------
(***************************************************************************)
(* Model of src/index.js: a simulated chiller behind a Modbus TCP server.  *)
(* The state is the holding-register array, the three control coils and    *)
(* the chiller data; the operations are the server's vector callbacks      *)
(* (getHoldingRegister, setRegister, getCoil, setCoil) and the body of the *)
(* setInterval callback of startPublishing (one tick).                     *)
(*                                                                         *)
(* JavaScript numbers are IEEE-754 doubles and the registers carry         *)
(* IEEE-754 singles, so both formats are modelled exactly: a number is a   *)
(* sign, an integer significand and a power of two, every arithmetic       *)
(* result is rounded to nearest, ties to even, and the significand is kept *)
(* as a little-endian sequence of limbs because it needs 53 bits.          *)
(***************************************************************************)
EXTENDS Integers, Sequences, FiniteSets, TLC

(***************************************************************************)
(* Natural numbers of any size: little-endian sequences of limbs in        *)
(* 0..Base-1 with no leading (last) zero limb; << >> is zero.              *)
(***************************************************************************)
Base == 2^14

Pow2(n) == 2^n

RECURSIVE BNorm(_)
BNorm(a) ==
    IF a = << >> THEN << >>
    ELSE IF a[Len(a)] = 0 THEN BNorm(SubSeq(a, 1, Len(a) - 1))
    ELSE a

RECURSIVE BFromNat(_)
BFromNat(n) == IF n = 0 THEN << >> ELSE <<n % Base>> \o BFromNat(n \div Base)

BLimb(a, i) == IF i >= 1 /\ i <= Len(a) THEN a[i] ELSE 0

BMax(x, y) == IF x >= y THEN x ELSE y

RECURSIVE BAddFrom(_, _, _, _)
BAddFrom(a, b, i, carry) ==
    IF i > BMax(Len(a), Len(b))
    THEN (IF carry = 0 THEN << >> ELSE <<carry>>)
    ELSE LET t == BLimb(a, i) + BLimb(b, i) + carry
         IN  <<t % Base>> \o BAddFrom(a, b, i + 1, t \div Base)

BAdd(a, b) == BNorm(BAddFrom(a, b, 1, 0))

\* a - b for a >= b
RECURSIVE BSubFrom(_, _, _, _)
BSubFrom(a, b, i, borrow) ==
    IF i > Len(a) THEN << >>
    ELSE LET t == BLimb(a, i) - BLimb(b, i) - borrow
         IN  IF t < 0 THEN <<t + Base>> \o BSubFrom(a, b, i + 1, 1)
                      ELSE <<t>> \o BSubFrom(a, b, i + 1, 0)

BSub(a, b) == BNorm(BSubFrom(a, b, 1, 0))

\* -1, 0, 1 as a < b, a = b, a > b (both normalised)
RECURSIVE BCmpFrom(_, _, _)
BCmpFrom(a, b, i) ==
    IF i = 0 THEN 0
    ELSE IF a[i] < b[i] THEN -1
    ELSE IF a[i] > b[i] THEN 1
    ELSE BCmpFrom(a, b, i - 1)

BCmp(a, b) ==
    IF Len(a) < Len(b) THEN -1
    ELSE IF Len(a) > Len(b) THEN 1
    ELSE BCmpFrom(a, b, Len(a))

\* a times one limb d
RECURSIVE BMulLimbFrom(_, _, _, _)
BMulLimbFrom(a, d, i, carry) ==
    IF i > Len(a)
    THEN (IF carry = 0 THEN << >> ELSE <<carry>>)
    ELSE LET t == a[i] * d + carry
         IN  <<t % Base>> \o BMulLimbFrom(a, d, i + 1, t \div Base)

BZeros(n) == [i \in 1..n |-> 0]

RECURSIVE BMulFrom(_, _, _)
BMulFrom(a, b, j) ==
    IF j > Len(b) THEN << >>
    ELSE BAdd(BNorm(BZeros(j - 1) \o BMulLimbFrom(a, b[j], 1, 0)),
              BMulFrom(a, b, j + 1))

BMul(a, b) == IF a = << >> \/ b = << >> THEN << >> ELSE BMulFrom(a, b, 1)

LimbBits(d) == IF d = 0 THEN 0 ELSE CHOOSE n \in 1..14 : 2^(n - 1) <= d /\ d < 2^n

\* number of bits of a (0 for zero)
BBitLen(a) == IF a = << >> THEN 0 ELSE 14 * (Len(a) - 1) + LimbBits(a[Len(a)])

\* a * 2^n
BShl(a, n) ==
    IF a = << >> THEN << >>
    ELSE BNorm(BZeros(n \div 14) \o BMulLimbFrom(a, Pow2(n % 14), 1, 0))

\* floor(a / 2^r) for r < 14
RECURSIVE BShrBitsFrom(_, _, _)
BShrBitsFrom(a, r, i) ==
    IF i > Len(a) THEN << >>
    ELSE <<(a[i] \div Pow2(r)) + (BLimb(a, i + 1) % Pow2(r)) * Pow2(14 - r)>>
         \o BShrBitsFrom(a, r, i + 1)

\* floor(a / 2^n)
BShr(a, n) ==
    IF n \div 14 >= Len(a) THEN << >>
    ELSE BNorm(BShrBitsFrom(SubSeq(a, (n \div 14) + 1, Len(a)), n % 14, 1))

\* bit i of a (bit 0 is the least significant)
BBit(a, i) == (BLimb(a, (i \div 14) + 1) \div Pow2(i % 14)) % 2

\* a mod 2^n is not zero
BLowNonZero(a, n) ==
    \/ \E i \in 1..(n \div 14) : BLimb(a, i) # 0
    \/ BLimb(a, (n \div 14) + 1) % Pow2(n % 14) # 0

\* the value of a, for a that fits the integers of the checker
RECURSIVE BToNat(_)
BToNat(a) == IF a = << >> THEN 0 ELSE a[1] + Base * BToNat(Tail(a))


(***************************************************************************)
(* IEEE-754 binary floating point.  A number is a record                   *)
(*   [k |-> "fin", s |-> sign, m |-> significand, e |-> exponent]          *)
(* of value (-1)^s * m * 2^e with m odd (or m zero and e = 0, a signed     *)
(* zero), or an infinity [k |-> "inf", s |-> sign], or the NaN.  The form  *)
(* is unique, so two numbers are the same value exactly when the records   *)
(* are equal (the two zeros differ in s, as +0 and -0 do in bits).         *)
(***************************************************************************)
Fin(s, m, e) == [k |-> "fin", s |-> s, m |-> m, e |-> e]
Inf(s) == [k |-> "inf", s |-> s, m |-> << >>, e |-> 0]
NaN == [k |-> "nan", s |-> 0, m |-> << >>, e |-> 0]

\* the number of zero bits below the lowest one bit of m, counted from bit i
RECURSIVE TrailingZeros(_, _)
TrailingZeros(m, i) ==
    IF i % 14 = 0 /\ BLimb(m, (i \div 14) + 1) = 0 THEN TrailingZeros(m, i + 14)
    ELSE IF BBit(m, i) = 1 THEN i
    ELSE TrailingZeros(m, i + 1)

\* the unique record of (-1)^s * m * 2^e
Canon(s, m, e) ==
    IF m = << >> THEN Fin(s, << >>, 0)
    ELSE LET z == TrailingZeros(m, 0) IN Fin(s, BShr(m, z), e + z)

\* The formats: p bits of precision, least exponent emin of the last place,
\* greatest exponent emax of the last place.
Binary64 == [p |-> 53, emin |-> -1074, emax |-> 971]
Binary32 == [p |-> 24, emin |-> -149, emax |-> 104]

\* (-1)^s * m * 2^e rounded to the format f: to nearest, ties to even,
\* gradual underflow, overflow to the infinity.
RoundTo(f, s, m, e) ==
    IF m = << >> THEN Fin(s, << >>, 0)
    ELSE
      LET len == BBitLen(m)
          q == BMax(e + len - f.p, f.emin)
          sh == q - e
          t == BShr(m, sh)
          up == /\ BBit(m, sh - 1) = 1
                /\ (BLowNonZero(m, sh - 1) \/ BBit(t, 0) = 1)
          r == IF up THEN BAdd(t, <<1>>) ELSE t
      IN  IF sh <= 0
          THEN (IF e + len > f.emax + f.p THEN Inf(s) ELSE Canon(s, m, e))
          ELSE IF BBitLen(r) + q > f.emax + f.p THEN Inf(s)
          ELSE Canon(s, r, q)

\* Math.fround: a double narrowed to single precision
Fround(x) == IF x.k = "fin" THEN RoundTo(Binary32, x.s, x.m, x.e) ELSE x

DNeg(x) == IF x.k = "nan" THEN NaN ELSE [x EXCEPT !.s = 1 - x.s]

\* the exponent just above the leading bit of a finite x that is not zero
Top(x) == x.e + BBitLen(x.m)

\* A finite y that is not zero as it counts in x + y for a finite x: when y
\* lies more than 64 binary places below the leading bit of x, it only
\* decides on which side of x the exact sum lies, and 2^(Top(x) - 64) with
\* the sign of y decides the same.
Absorbed(x, y) ==
    IF Top(x) - Top(y) > 64 THEN Fin(y.s, <<1>>, Top(x) - 64) ELSE y

\* x + y of two doubles
DAdd(x, y) ==
    IF x.k = "nan" \/ y.k = "nan" THEN NaN
    ELSE IF x.k = "inf" /\ y.k = "inf" THEN (IF x.s = y.s THEN x ELSE NaN)
    ELSE IF x.k = "inf" THEN x
    ELSE IF y.k = "inf" THEN y
    ELSE IF x.m = << >> /\ y.m = << >>
         THEN Fin(IF x.s = 1 /\ y.s = 1 THEN 1 ELSE 0, << >>, 0)
    ELSE IF x.m = << >> THEN y
    ELSE IF y.m = << >> THEN x
    ELSE
      LET u == Absorbed(y, x)
          v == Absorbed(x, y)
          e0 == IF u.e <= v.e THEN u.e ELSE v.e
          a == BShl(u.m, u.e - e0)
          b == BShl(v.m, v.e - e0)
          c == BCmp(a, b)
      IN  IF u.s = v.s THEN RoundTo(Binary64, u.s, BAdd(a, b), e0)
          ELSE IF c = 0 THEN Fin(0, << >>, 0)
          ELSE IF c > 0 THEN RoundTo(Binary64, u.s, BSub(a, b), e0)
          ELSE RoundTo(Binary64, v.s, BSub(b, a), e0)

\* x - y of two doubles
DSub(x, y) == DAdd(x, DNeg(y))

\* x * y of two doubles
DMul(x, y) ==
    LET s == (x.s + y.s) % 2 IN
    IF x.k = "nan" \/ y.k = "nan" THEN NaN
    ELSE IF x.k = "inf" \/ y.k = "inf"
         THEN (IF (x.k = "fin" /\ x.m = << >>) \/ (y.k = "fin" /\ y.m = << >>)
               THEN NaN ELSE Inf(s))
    ELSE RoundTo(Binary64, s, BMul(x.m, y.m), x.e + y.e)

\* the order of the magnitudes of two finite numbers that are not zero
MagCmp(x, y) ==
    LET e0 == IF x.e <= y.e THEN x.e ELSE y.e IN
    IF Top(x) < Top(y) THEN -1
    ELSE IF Top(x) > Top(y) THEN 1
    ELSE BCmp(BShl(x.m, x.e - e0), BShl(y.m, y.e - e0))

\* the order of two numbers that are not NaN: -1, 0, 1
DCmp(x, y) ==
    LET sx == IF x.k = "fin" /\ x.m = << >> THEN 0 ELSE IF x.s = 1 THEN -1 ELSE 1
        sy == IF y.k = "fin" /\ y.m = << >> THEN 0 ELSE IF y.s = 1 THEN -1 ELSE 1
        mag == IF x.k = "inf" /\ y.k = "inf" THEN 0
               ELSE IF x.k = "inf" THEN 1
               ELSE IF y.k = "inf" THEN -1
               ELSE MagCmp(x, y)
    IN  IF sx # sy THEN (IF sx < sy THEN -1 ELSE 1)
        ELSE IF sx = 0 THEN 0
        ELSE sx * mag

\* x < y and x > y as JavaScript evaluates them: false when either is NaN
DLt(x, y) == x.k # "nan" /\ y.k # "nan" /\ DCmp(x, y) < 0
DGt(x, y) == x.k # "nan" /\ y.k # "nan" /\ DCmp(x, y) > 0

\* the double of a small integer, and of n / 2^d
DInt(n) == IF n < 0 THEN Canon(1, BFromNat(-n), 0) ELSE Canon(0, BFromNat(n), 0)
DFrac(n, d) == IF n < 0 THEN Canon(1, BFromNat(-n), -d) ELSE Canon(0, BFromNat(n), -d)


(***************************************************************************)
(* Node's Buffer, as far as the program uses it: a function from the byte  *)
(* offsets to the bytes.                                                   *)
(***************************************************************************)

\* Buffer.allocUnsafe(n): the n bytes are not initialised.  The program
\* writes every byte before it reads it; a byte it had not written would
\* read as -1 here and show as a cell outside 0..65535.
allocUnsafe(n) == [i \in 0..(n - 1) |-> -1]

\* the sign, biased exponent and fraction fields of a single x
Float32Fields(x) ==
    IF x.k = "nan" THEN <<0, 255, 2^22>>
    ELSE IF x.k = "inf" THEN <<x.s, 255, 0>>
    ELSE IF x.m = << >> THEN <<x.s, 0, 0>>
    ELSE IF Top(x) - 1 >= -126
         THEN <<x.s, Top(x) + 126,
                BToNat(BShl(x.m, 24 - BBitLen(x.m))) - 2^23>>
    ELSE <<x.s, 0, BToNat(BShl(x.m, x.e + 149))>>

\* buf.writeFloatBE(value, offset): value narrowed to single precision, the
\* most significant byte first
writeFloatBE(buf, value, offset) ==
    LET f == Float32Fields(Fround(value)) IN
    [buf EXCEPT ![offset] = f[1] * 128 + (f[2] \div 2),
                ![offset + 1] = (f[2] % 2) * 128 + (f[3] \div 65536),
                ![offset + 2] = (f[3] \div 256) % 256,
                ![offset + 3] = f[3] % 256]

\* buf.readFloatBE(offset): the single at offset, widened to a double
readFloatBE(buf, offset) ==
    LET s == buf[offset] \div 128
        biased == (buf[offset] % 128) * 2 + (buf[offset + 1] \div 128)
        fraction == (buf[offset + 1] % 128) * 65536
                    + buf[offset + 2] * 256 + buf[offset + 3]
    IN  IF biased = 255 THEN (IF fraction = 0 THEN Inf(s) ELSE NaN)
        ELSE IF biased = 0 THEN Canon(s, BFromNat(fraction), -149)
        ELSE Canon(s, BFromNat(2^23 + fraction), biased - 150)

readUInt16BE(buf, offset) == buf[offset] * 256 + buf[offset + 1]

writeUInt16BE(buf, value, offset) ==
    [buf EXCEPT ![offset] = value \div 256, ![offset + 1] = value % 256]

\* float32ToRegisters with the offsets of the two reads exchanged
float32ToRegisters_LowFirst(value) ==
    LET buffer == writeFloatBE(allocUnsafe(4), value, 0)
    IN  <<readUInt16BE(buffer, 2), readUInt16BE(buffer, 0)>>

\* Helper: Convert float32 to 2 registers (Big Endian)
float32ToRegisters(value) ==
    LET buffer == writeFloatBE(allocUnsafe(4), value, 0)
    IN  <<readUInt16BE(buffer, 0), readUInt16BE(buffer, 2)>>

\* Helper: Convert 2 registers to float32 (Big Endian)
registersToFloat32(reg1, reg2) ==
    LET buffer == writeUInt16BE(writeUInt16BE(allocUnsafe(4), reg1, 0), reg2, 2)
    IN  readFloatBE(buffer, 0)

(***************************************************************************)
(* The program's constants and initial values.                             *)
(***************************************************************************)
NumRegisters == 1000

Zero == DInt(0)
Thirty == DInt(30)
\* the literals 7.0, 12.0, 7.5, 2.0 and 0.1 (0.1 is the double
\* 0x3FB999999999999A, the nearest to one tenth)
DefaultSetting == DInt(7)
DefaultEntering == DInt(12)
DefaultLeaving == DFrac(15, 1)
Two == DInt(2)
Tenth == Fin(0, <<3277, 13107, 3276, 819>>, -55)

InitialRegisters == [a \in 0..(NumRegisters - 1) |-> 0]
InitialCoils == (300 :> TRUE) @@ (301 :> FALSE) @@ (302 :> TRUE)
InitialChillerData ==
    [leavingTempSettings |-> DefaultSetting,
     enteringTemp |-> DefaultEntering,
     leavingTemp |-> DefaultLeaving]

(***************************************************************************)
(* The vector's callbacks and the register helpers, as functions of the    *)
(* state they read.                                                        *)
(***************************************************************************)
\* getHoldingRegister with addr > 0 for addr >= 0
getHoldingRegister_AboveZero(regs, addr) ==
    IF addr > 0 /\ addr < NumRegisters THEN regs[addr] ELSE 0

getHoldingRegister(regs, addr) ==
    IF addr >= 0 /\ addr < NumRegisters THEN regs[addr] ELSE 0

\* setRegister without the upper bound: the array grows
setRegister_NoUpperBound(regs, addr, value) ==
    IF addr >= 0 THEN (addr :> value) @@ regs ELSE regs

setRegister(regs, addr, value) ==
    IF addr >= 0 /\ addr < NumRegisters THEN [regs EXCEPT ![addr] = value] ELSE regs

\* getCoil with addr > 300 for addr >= 300
getCoil_Above300(cls, addr) ==
    IF addr > 300 /\ addr <= 302 THEN (cls[addr] \/ FALSE) ELSE FALSE

getCoil(cls, addr) ==
    IF addr >= 300 /\ addr <= 302 THEN (cls[addr] \/ FALSE) ELSE FALSE

setCoil(cls, addr, value) ==
    IF addr >= 300 /\ addr <= 302 THEN [cls EXCEPT ![addr] = value] ELSE cls

\* setFloat32Value storing regs[1] first
setFloat32Value_LowFirst(regs, startAddr, value) ==
    LET r == float32ToRegisters(value)
    IN  [regs EXCEPT ![startAddr] = r[2], ![startAddr + 1] = r[1]]

\* Set float value ke holding registers
setFloat32Value(regs, startAddr, value) ==
    LET r == float32ToRegisters(value)
    IN  [regs EXCEPT ![startAddr] = r[1], ![startAddr + 1] = r[2]]

\* getFloat32Value reading the pair of registers after the one asked for
getFloat32Value_NextPair(regs, startAddr) ==
    registersToFloat32(regs[startAddr + 2], regs[startAddr + 3])

\* Get float value dari holding registers
getFloat32Value(regs, startAddr) ==
    registersToFloat32(regs[startAddr], regs[startAddr + 1])

\* initializeDefaultValues with leavingTemp at 40002 and enteringTemp at 40003
initializeDefaultValues_Swapped(regs, data) ==
    setFloat32Value(
        setFloat32Value(
            setFloat32Value(regs, 0, data.leavingTempSettings),
            2, data.leavingTemp),
        4, data.enteringTemp)

initializeDefaultValues(regs, data) ==
    setFloat32Value(
        setFloat32Value(
            setFloat32Value(regs, 0, data.leavingTempSettings),
            2, data.enteringTemp),
        4, data.leavingTemp)

(***************************************************************************)
(* The steps of one tick, in the order of the callback's body.             *)
(***************************************************************************)

\* HandleReset without the line that restores leavingTemp
HandleReset_KeepLeaving(data, resetRequested) ==
    IF resetRequested
    THEN [leavingTempSettings |-> DInt(7),
          enteringTemp |-> DInt(12),
          leavingTemp |-> data.leavingTemp]
    ELSE data

\* Handle reset: the chiller data after the reset check
HandleReset(data, resetRequested) ==
    IF resetRequested
    THEN [leavingTempSettings |-> DInt(7),
          enteringTemp |-> DInt(12),
          leavingTemp |-> DFrac(15, 1)]
    ELSE data

\* ClearReset without the assignment coils[301] = false
ClearReset_Keep(cls, resetRequested) == cls

\* Clear reset flag
ClearReset(cls, resetRequested) ==
    IF resetRequested THEN [cls EXCEPT ![301] = FALSE] ELSE cls

\* SettingAccepted with >= and <= for > and <
SettingAccepted_Inclusive(currentSetting) ==
    /\ ~DLt(currentSetting, Zero) /\ ~DGt(currentSetting, Thirty)
    /\ currentSetting.k # "nan"

\* SettingAccepted without the upper bound
SettingAccepted_NoUpperBound(currentSetting) == DGt(currentSetting, Zero)

\* currentSetting > 0 && currentSetting < 30
SettingAccepted(currentSetting) ==
    DGt(currentSetting, Zero) /\ DLt(currentSetting, Thirty)

\* ReadSetting that never adopts the value of the registers
ReadSetting_Skip(data, currentSetting) == data

\* Baca setting dari register
ReadSetting(data, currentSetting) ==
    IF SettingAccepted(currentSetting)
    THEN [data EXCEPT !.leavingTempSettings = currentSetting]
    ELSE data

\* StepLeaving with the operands of the difference exchanged
StepLeaving_Reversed(setting, leaving) ==
    DAdd(leaving, DMul(DSub(leaving, setting), Tenth))

\* leavingTemp += (leavingTempSettings - leavingTemp) * 0.1
StepLeaving(setting, leaving) ==
    DAdd(leaving, DMul(DSub(setting, leaving), Tenth))

\* 12.0 + Math.sin(time) * 2.0, for the sine the clock gives
StepEntering(sine) == DAdd(DInt(12), DMul(sine, Two))

\* Simulate without the factor 0.1
Simulate_FullStep(data, simulationEnabled, sine) ==
    IF simulationEnabled
    THEN [data EXCEPT !.enteringTemp = StepEntering(sine),
                      !.leavingTemp =
                          DAdd(data.leavingTemp,
                               DSub(data.leavingTempSettings, data.leavingTemp))]
    ELSE data

\* Simulate without the test of simulationEnabled
Simulate_Always(data, simulationEnabled, sine) ==
    [data EXCEPT !.enteringTemp = StepEntering(sine),
                 !.leavingTemp = StepLeaving(data.leavingTempSettings,
                                             data.leavingTemp)]

\* Simulasi temperature changes
Simulate(data, simulationEnabled, sine) ==
    IF simulationEnabled
    THEN [data EXCEPT !.enteringTemp = StepEntering(sine),
                      !.leavingTemp = StepLeaving(data.leavingTempSettings,
                                                  data.leavingTemp)]
    ELSE data

\* Publish without the test of publishEnabled
Publish_Always(regs, data, publishEnabled) ==
    setFloat32Value(
        setFloat32Value(
            setFloat32Value(regs, 0, data.leavingTempSettings),
            2, data.enteringTemp),
        4, data.leavingTemp)

\* Publish with leavingTemp written at address 5
Publish_Shifted(regs, data, publishEnabled) ==
    IF publishEnabled
    THEN setFloat32Value(
             setFloat32Value(
                 setFloat32Value(regs, 0, data.leavingTempSettings),
                 2, data.enteringTemp),
             5, data.leavingTemp)
    ELSE regs

\* Publish data
Publish(regs, data, publishEnabled) ==
    IF publishEnabled
    THEN setFloat32Value(
             setFloat32Value(
                 setFloat32Value(regs, 0, data.leavingTempSettings),
                 2, data.enteringTemp),
             4, data.leavingTemp)
    ELSE regs


\* Callback with the setting read from the registers before the reset check
Callback_IngestFirst(regs, cls, data, sine) ==
    LET publishEnabled == cls[300]
        resetRequested == cls[301]
        simulationEnabled == cls[302]
        currentSetting == getFloat32Value(regs, 0)
        afterSetting == ReadSetting(data, currentSetting)
        afterReset == HandleReset(afterSetting, resetRequested)
        afterSimulation == Simulate(afterReset, simulationEnabled, sine)
    IN  [registers |-> Publish(regs, afterSimulation, publishEnabled),
         coils |-> ClearReset(cls, resetRequested),
         data |-> afterSimulation,
         publishEnabled |-> publishEnabled,
         resetRequested |-> resetRequested,
         simulationEnabled |-> simulationEnabled,
         currentSetting |-> currentSetting]

\* The callback of setInterval, from the state it starts in to the state it
\* leaves, with its locals
Callback(regs, cls, data, sine) ==
    LET publishEnabled == cls[300]
        resetRequested == cls[301]
        simulationEnabled == cls[302]
        afterReset == HandleReset(data, resetRequested)
        currentSetting == getFloat32Value(regs, 0)
        afterSetting == ReadSetting(afterReset, currentSetting)
        afterSimulation == Simulate(afterSetting, simulationEnabled, sine)
    IN  [registers |-> Publish(regs, afterSimulation, publishEnabled),
         coils |-> ClearReset(cls, resetRequested),
         data |-> afterSimulation,
         publishEnabled |-> publishEnabled,
         resetRequested |-> resetRequested,
         simulationEnabled |-> simulationEnabled,
         currentSetting |-> currentSetting]

(***************************************************************************)
(* The state machine.  holdingRegisters, coils and chillerData are the     *)
(* program's module-level state; timers counts the intervals started by    *)
(* startPublishing.  op records the last operation with its arguments,     *)
(* locals and result, and preRegisters, preCoils and preData the state it  *)
(* started from, so that what an operation did can be read off a state.    *)
(* ticks and requests count the timer firings and the client's requests.   *)
(* touched tells whether a client has written register 0 or 1 since the    *)
(* last tick.  running is the stack of the callbacks that have begun and   *)
(* not returned, used where the callback is followed line by line.  twin   *)
(* is the program state of a second run, used where two runs are compared. *)
(***************************************************************************)
VARIABLES holdingRegisters, preRegisters, coils, chillerData, preCoils,
          preData, timers, ticks, requests, op, touched, running, twin

vars == <<holdingRegisters, preRegisters, coils, chillerData, preCoils,
          preData, timers, ticks, requests, op, touched, running, twin>>

\* Bounds of the exploration
MaxTicks == 2
MaxRequests == 3

\* What the client sends.  The cells written to registers 0 and 1 make
\* registers 0-1 decode to 15.0 (0x4170 0000), 35.0 (0x420C 0000), zero,
\* infinity (0x7F80 0000), -15.0 (0xC170 0000) and, with 0xFFFF in register
\* 1, to a number below the normal range (0x0000 FFFF) or to NaN
\* (0x7F80 FFFF).
RegisterWrites ==
    {<<0, 16752>>, <<0, 16908>>, <<0, 0>>, <<0, 32640>>, <<0, 49520>>,
     <<1, 65535>>, <<5, 65535>>, <<999, 65535>>, <<-1, 5>>, <<1000, 5>>}
RegisterReads == {-1, 0, 999, 1000}
CoilReads == {299, 300, 302, 303}
CoilWrites ==
    {<<300, FALSE>>, <<300, TRUE>>, <<301, TRUE>>, <<301, FALSE>>,
     <<302, FALSE>>, <<302, TRUE>>, <<299, TRUE>>, <<303, TRUE>>}

\* The values Math.sin(Date.now() / 10000) takes: sin(1.0) and -0.5
SineValues == {Fin(0, <<1655, 7698, 10916, 861>>, -52), DFrac(-1, 1)}

Snapshot ==
    /\ preRegisters' = holdingRegisters
    /\ preCoils' = coils
    /\ preData' = chillerData

\* no second run
NoTwin == [registers |-> << >>, coils |-> << >>, data |-> << >>]

\* the module is loaded: one run, no callback running
Init ==
    /\ holdingRegisters = InitialRegisters
    /\ coils = InitialCoils
    /\ chillerData = InitialChillerData
    /\ preRegisters = InitialRegisters
    /\ preCoils = InitialCoils
    /\ preData = InitialChillerData
    /\ timers = 0
    /\ ticks = 0
    /\ requests = 0
    /\ op = [name |-> "load"]
    /\ touched = FALSE
    /\ running = << >>
    /\ twin = NoTwin

\* serverTCP.on("initialized"): the server listens; the defaults are written
\* to the registers and the loop is started
Initialized ==
    /\ timers = 0
    /\ holdingRegisters' = initializeDefaultValues(holdingRegisters, chillerData)
    /\ timers' = timers + 1
    /\ op' = [name |-> "initialized"]
    /\ Snapshot
    /\ UNCHANGED <<coils, chillerData, ticks, requests, touched, running, twin>>

\* The client reads a holding register
GetHoldingRegister(addr) ==
    /\ timers > 0
    /\ op' = [name |-> "getHoldingRegister", addr |-> addr,
              result |-> getHoldingRegister(holdingRegisters, addr)]
    /\ requests' = requests + 1
    /\ Snapshot
    /\ UNCHANGED <<holdingRegisters, coils, chillerData, timers, ticks,
                   touched, running, twin>>

\* The client writes a holding register
SetRegister(addr, value) ==
    /\ timers > 0
    /\ holdingRegisters' = setRegister(holdingRegisters, addr, value)
    /\ requests' = requests + 1
    /\ op' = [name |-> "setRegister", addr |-> addr, value |-> value]
    /\ touched' = (touched \/ addr \in {0, 1})
    /\ Snapshot
    /\ UNCHANGED <<coils, chillerData, timers, ticks, running, twin>>

\* The client reads a coil
GetCoil(addr) ==
    /\ timers > 0
    /\ op' = [name |-> "getCoil", addr |-> addr, result |-> getCoil(coils, addr)]
    /\ requests' = requests + 1
    /\ Snapshot
    /\ UNCHANGED <<holdingRegisters, coils, chillerData, timers, ticks,
                   touched, running, twin>>

\* The client writes a coil
SetCoil(addr, value) ==
    /\ timers > 0
    /\ coils' = setCoil(coils, addr, value)
    /\ requests' = requests + 1
    /\ op' = [name |-> "setCoil", addr |-> addr, value |-> value]
    /\ Snapshot
    /\ UNCHANGED <<holdingRegisters, chillerData, timers, ticks, touched,
                   running, twin>>

\* One firing of the interval: the whole body of the callback
Tick(sine) ==
    /\ timers > 0
    /\ \E after \in {Callback(holdingRegisters, coils, chillerData, sine)} :
           /\ coils' = after.coils
           /\ chillerData' = after.data
           /\ holdingRegisters' = after.registers
           /\ op' = [name |-> "tick", sine |-> sine,
                     publishEnabled |-> after.publishEnabled,
                     resetRequested |-> after.resetRequested,
                     simulationEnabled |-> after.simulationEnabled,
                     currentSetting |-> after.currentSetting,
                     touched |-> touched]
    /\ ticks' = ticks + 1
    /\ touched' = FALSE
    /\ Snapshot
    /\ UNCHANGED <<timers, requests, running, twin>>

\* the client has requests left, the timer has firings left
RequestsLeft == requests < MaxRequests
TicksLeft == ticks < MaxTicks

Next ==
    \/ Initialized
    \/ RequestsLeft /\ \E addr \in RegisterReads : GetHoldingRegister(addr)
    \/ RequestsLeft /\ \E w \in RegisterWrites : SetRegister(w[1], w[2])
    \/ RequestsLeft /\ \E addr \in CoilReads : GetCoil(addr)
    \/ RequestsLeft /\ \E w \in CoilWrites : SetCoil(w[1], w[2])
    \/ TicksLeft /\ \E sine \in SineValues : Tick(sine)

Spec == Init /\ [][Next]_vars

(***************************************************************************)
(* The float codec on its own: the two helpers applied to values and to    *)
(* byte patterns drawn from bounded sets.  Only op changes.                *)
(***************************************************************************)

\* doubles: 0.0, -0.0, 7.0, 12.0, -40.0, 3.14159, 7.45, 0.1, 1e-40 (below
\* the normal range of a single), 1e-50 (below every single), 1e39 (above
\* every single), the largest double that narrows to a finite single, the
\* infinities and NaN
CodecValues ==
    {DInt(0), Fin(1, << >>, 0), DInt(7), DInt(12), DInt(-40),
     Fin(0, <<823, 8247, 4047, 804>>, -50),
     Fin(0, <<3277, 13107, 3276, 1907>>, -50),
     Tenth,
     Fin(0, <<5607, 10103, 12440, 278>>, -183),
     Fin(0, <<14367, 11090, 10148, 1915>>, -219),
     Fin(0, <<2589, 4721, 10367, 1504>>, 77),
     Inf(0), Inf(1), NaN}

\* bytes of the patterns split into cells
CodecBytes == {0, 1, 127, 128, 255}

\* float32ToRegisters(value) is called
EncodeValue(value) ==
    /\ op' = [name |-> "float32ToRegisters", value |-> value,
              result |-> float32ToRegisters(value)]
    /\ UNCHANGED <<holdingRegisters, preRegisters, coils, chillerData,
                   preCoils, preData, timers, ticks, requests, touched,
                   running, twin>>

\* registersToFloat32 is called with the two cells the last call returned
DecodeCells ==
    /\ op.name = "float32ToRegisters"
    /\ op' = [name |-> "registersToFloat32", value |-> op.value,
              reg1 |-> op.result[1], reg2 |-> op.result[2],
              result |-> registersToFloat32(op.result[1], op.result[2])]
    /\ UNCHANGED <<holdingRegisters, preRegisters, coils, chillerData,
                   preCoils, preData, timers, ticks, requests, touched,
                   running, twin>>

\* a buffer of four bytes is read as two cells, as float32ToRegisters reads
\* it, and the cells are written to a new buffer, as registersToFloat32
\* writes them
SplitPattern(b0, b1, b2, b3) ==
    /\ LET bytes == [i \in 0..3 |-> <<b0, b1, b2, b3>>[i + 1]]
           reg1 == readUInt16BE(bytes, 0)
           reg2 == readUInt16BE(bytes, 2)
       IN  op' = [name |-> "split", bytes |-> bytes, reg1 |-> reg1, reg2 |-> reg2,
                  buffer |-> writeUInt16BE(
                                 writeUInt16BE(allocUnsafe(4), reg1, 0), reg2, 2)]
    /\ UNCHANGED <<holdingRegisters, preRegisters, coils, chillerData,
                   preCoils, preData, timers, ticks, requests, touched,
                   running, twin>>

CodecNext ==
    \/ \E value \in CodecValues : EncodeValue(value)
    \/ DecodeCells
    \/ \E b0 \in CodecBytes, b1 \in CodecBytes, b2 \in CodecBytes, b3 \in CodecBytes :
           SplitPattern(b0, b1, b2, b3)

SpecCodec == Init /\ [][CodecNext]_vars


(***************************************************************************)
(* The properties.  A state after a tick carries the state the tick began  *)
(* in (preRegisters, preCoils, preData) and the tick's locals (op).        *)
(***************************************************************************)
AfterTick == op.name = "tick"

\* what registers 0-1 decoded to when the last operation began
PreSetting == registersToFloat32(preRegisters[0], preRegisters[1])

\* v is a number strictly between 0 and 30
StrictlyInside(v) ==
    /\ v.k = "fin"
    /\ v.s = 0
    /\ v.m # << >>
    /\ MagCmp(v, DInt(30)) < 0

\* C1 as stated: after a tick that began with coil 301 true, settingTemp =
\* 7.0, enteringTemp = 12.0, leavingTemp = 7.5 and coil 301 reads false.
C1_Original ==
    (AfterTick /\ preCoils[301]) =>
        /\ chillerData.leavingTempSettings = DInt(7)
        /\ chillerData.enteringTemp = DInt(12)
        /\ chillerData.leavingTemp = DFrac(15, 1)
        /\ getCoil(coils, 301) = FALSE

\* C1 amended: after a tick that began with coil 301 true, coil 301 reads
\* false; settingTemp is the value registers 0-1 decoded to when that value
\* is strictly inside (0, 30) and 7.0 otherwise; with coil 302 false at the
\* start enteringTemp = 12.0 and leavingTemp = 7.5, and with coil 302 true
\* they are one simulation step from the reset values: leavingTemp =
\* 7.5 + (settingTemp - 7.5) * 0.1 and enteringTemp = 12.0 + sine * 2.0.
C1_Reset ==
    (AfterTick /\ preCoils[301]) =>
        /\ getCoil(coils, 301) = FALSE
        /\ chillerData.leavingTempSettings =
               (IF StrictlyInside(PreSetting) THEN PreSetting ELSE DInt(7))
        /\ ~preCoils[302] =>
               /\ chillerData.enteringTemp = DInt(12)
               /\ chillerData.leavingTemp = DFrac(15, 1)
        /\ preCoils[302] =>
               /\ chillerData.enteringTemp = DAdd(DInt(12), DMul(op.sine, DInt(2)))
               /\ chillerData.leavingTemp =
                      DAdd(DFrac(15, 1),
                           DMul(DSub(chillerData.leavingTempSettings, DFrac(15, 1)),
                                Tenth))

\* C1 witness: a tick reset the data when leavingTemp had moved away from
\* 7.5 and registers 0-1 held an acceptable setting other than 7.0.
C1_Witness ==
    /\ AfterTick
    /\ preCoils[301]
    /\ preData.leavingTemp # DFrac(15, 1)
    /\ StrictlyInside(PreSetting)
    /\ PreSetting # DInt(7)

\* C2: setRegister with an address outside [0, 1000) changes no register, no
\* coil and no process value; with an address inside it sets exactly that
\* cell to the value and leaves every other register and every coil as it
\* was.
C2_SetRegister ==
    op.name = "setRegister" =>
        /\ \A a \in 0..999 :
               holdingRegisters[a] =
                   (IF a = op.addr THEN op.value ELSE preRegisters[a])
        /\ DOMAIN holdingRegisters = 0..999
        /\ coils = preCoils
        /\ chillerData = preData

\* C2 witness: writeRegister(1000, 5) was served.
C2_Witness ==
    /\ op.name = "setRegister"
    /\ op.addr = 1000
    /\ op.value = 5

\* C3: getHoldingRegister returns 0 for every address outside [0, 1000),
\* the stored cell for every address inside it, and changes no state.
C3_GetHoldingRegister ==
    op.name = "getHoldingRegister" =>
        /\ op.result =
               (IF op.addr \in 0..999 THEN preRegisters[op.addr] ELSE 0)
        /\ holdingRegisters = preRegisters
        /\ coils = preCoils
        /\ chillerData = preData

\* C3 witness: a read of a register inside the range returned a stored cell
\* that is not 0.
C3_Witness ==
    /\ op.name = "getHoldingRegister"
    /\ op.addr \in 0..999
    /\ op.result # 0

\* C4: getCoil returns false for every address outside {300, 301, 302} and
\* the stored boolean inside it; setCoil with an address outside the set
\* changes no coil, no register and no process value, and with an address
\* inside it sets exactly that coil.
C4_Coils ==
    /\ op.name = "getCoil" =>
           /\ op.result =
                  (IF op.addr \in {300, 301, 302} THEN preCoils[op.addr] ELSE FALSE)
           /\ coils = preCoils
           /\ holdingRegisters = preRegisters
           /\ chillerData = preData
    /\ op.name = "setCoil" =>
           /\ DOMAIN coils = {300, 301, 302}
           /\ \A a \in {300, 301, 302} :
                  coils[a] = (IF a = op.addr THEN op.value ELSE preCoils[a])
           /\ holdingRegisters = preRegisters
           /\ chillerData = preData

\* C4 witness: a write of true to coil 303, outside the set, was served.
C4_Witness ==
    /\ op.name = "setCoil"
    /\ op.addr = 303
    /\ op.value = TRUE

\* C5 as stated: after any tick, settingTemp is the value v registers 0-1
\* decoded to when 0 < v < 30, and its value from before the tick otherwise.
C5_Original ==
    AfterTick =>
        chillerData.leavingTempSettings =
            (IF StrictlyInside(PreSetting) THEN PreSetting
             ELSE preData.leavingTempSettings)

\* C5 amended: after any tick, settingTemp is the value v registers 0-1
\* decoded to when 0 < v < 30; otherwise it is its value from before the
\* tick when the tick began with coil 301 false, and 7.0 when the tick began
\* with coil 301 true.
C5_SettingFilter ==
    AfterTick =>
        chillerData.leavingTempSettings =
            (IF StrictlyInside(PreSetting) THEN PreSetting
             ELSE IF preCoils[301] THEN DInt(7)
             ELSE preData.leavingTempSettings)

\* C5 witness: a tick ignored a value of registers 0-1 outside (0, 30) while
\* settingTemp was a client's setting, not the default.
C5_Witness ==
    /\ AfterTick
    /\ ~StrictlyInside(PreSetting)
    /\ preData.leavingTempSettings # DInt(7)

\* C6: a tick that began with coil 300 false leaves every register as it
\* was, also when it changed the process values.
C6_PublishGating ==
    (AfterTick /\ ~preCoils[300]) => holdingRegisters = preRegisters

\* C6 witness: a tick with coil 300 false changed leavingTemp.
C6_Witness ==
    /\ AfterTick
    /\ ~preCoils[300]
    /\ chillerData.leavingTemp # preData.leavingTemp

\* C7: a tick that began with coil 300 true ends with registers 0-1, 2-3 and
\* 4-5 holding the single-precision encodings, high cell first, of the
\* settingTemp, enteringTemp and leavingTemp it ends with, whatever the
\* registers held before.
C7_Publish ==
    (AfterTick /\ preCoils[300]) =>
        /\ <<holdingRegisters[0], holdingRegisters[1]>> =
               float32ToRegisters(chillerData.leavingTempSettings)
        /\ <<holdingRegisters[2], holdingRegisters[3]>> =
               float32ToRegisters(chillerData.enteringTemp)
        /\ <<holdingRegisters[4], holdingRegisters[5]>> =
               float32ToRegisters(chillerData.leavingTemp)
        /\ readFloatBE(<<holdingRegisters[0] \div 256, holdingRegisters[0] % 256,
                         holdingRegisters[1] \div 256, holdingRegisters[1] % 256>>,
                       1) = Fround(chillerData.leavingTempSettings)

\* C7 witness: a publishing tick overwrote the cell a client had written to
\* register 5.
C7_Witness ==
    /\ AfterTick
    /\ preCoils[300]
    /\ preRegisters[5] = 65535
    /\ holdingRegisters[5] # 65535


\* C8: decoding the two cells float32ToRegisters produced returns the input
\* narrowed to single precision; splitting four bytes into the cells of
\* bits 31-16 and bits 15-0 and writing the cells back high cell first gives
\* the same four bytes; and every cell is in 0..65535.
C8_RoundTrip ==
    /\ op.name = "float32ToRegisters" =>
           /\ op.result[1] \in 0..65535
           /\ op.result[2] \in 0..65535
    /\ op.name = "registersToFloat32" => op.result = Fround(op.value)
    /\ op.name = "split" =>
           /\ op.buffer = op.bytes
           /\ op.reg1 \in 0..65535
           /\ op.reg2 \in 0..65535
           /\ op.reg1 = op.bytes[0] * 256 + op.bytes[1]
           /\ op.reg2 = op.bytes[2] * 256 + op.bytes[3]

\* C8 witness: a double that is no single (3.14159) went through both
\* helpers and came back as a different number, its nearest single.
C8_Witness ==
    /\ op.name = "registersToFloat32"
    /\ op.value = Fin(0, <<823, 8247, 4047, 804>>, -50)
    /\ op.result # op.value
    /\ op.reg1 = 16457
    /\ op.reg2 = 4048

\* |x - y| of two finite numbers, exactly
ExactGap(x, y) ==
    LET e0 == IF x.e <= y.e THEN x.e ELSE y.e
        a == BShl(x.m, x.e - e0)
        b == BShl(y.m, y.e - e0)
    IN  IF x.s # y.s THEN Canon(0, BAdd(a, b), e0)
        ELSE IF BCmp(a, b) >= 0 THEN Canon(0, BSub(a, b), e0)
        ELSE Canon(0, BSub(b, a), e0)

\* the step from leaving to next moves no further from setting and does not
\* pass it
Approaches(setting, leaving, next) ==
    /\ DCmp(ExactGap(setting, next), ExactGap(setting, leaving)) <= 0
    /\ DCmp(leaving, setting) < 0 => DCmp(next, setting) <= 0
    /\ DCmp(leaving, setting) > 0 => DCmp(next, setting) >= 0
    /\ DCmp(leaving, setting) = 0 => DCmp(next, setting) = 0

\* C9 as stated: after every tick that began with coil 302 true, leavingTemp
\* is old + (settingTemp - old) * 0.1 for its value old from before the
\* tick, and when the tick left settingTemp as it was, leavingTemp is no
\* further from settingTemp than before and on the same side of it.
C9_Original ==
    (AfterTick /\ preCoils[302]) =>
        /\ chillerData.leavingTemp =
               DAdd(preData.leavingTemp,
                    DMul(DSub(chillerData.leavingTempSettings, preData.leavingTemp),
                         Tenth))
        /\ chillerData.leavingTempSettings = preData.leavingTempSettings =>
               Approaches(chillerData.leavingTempSettings, preData.leavingTemp,
                          chillerData.leavingTemp)

\* C9 amended: after every tick that began with coil 302 true, leavingTemp
\* is old + (settingTemp - old) * 0.1, where old is leavingTemp after the
\* tick's reset check (7.5 when the tick began with coil 301 true, its value
\* from before the tick otherwise) and settingTemp the setting the tick ends
\* with (12.0 goes to 11.5 with settingTemp 7.0); when the tick began with
\* coil 301 false and left settingTemp as it was, leavingTemp is no further
\* from settingTemp than before and on the same side of it.
C9_Convergence ==
    /\ DAdd(DInt(12), DMul(DSub(DInt(7), DInt(12)), Tenth)) = DFrac(23, 1)
    /\ StepLeaving(DInt(7), DInt(12)) = DFrac(23, 1)
    /\ (AfterTick /\ preCoils[302]) =>
        LET old == IF preCoils[301] THEN DFrac(15, 1) ELSE preData.leavingTemp IN
        /\ chillerData.leavingTemp =
               DAdd(old, DMul(DSub(chillerData.leavingTempSettings, old), Tenth))
        /\ (~preCoils[301]
            /\ chillerData.leavingTempSettings = preData.leavingTempSettings) =>
               Approaches(chillerData.leavingTempSettings, preData.leavingTemp,
                          chillerData.leavingTemp)

\* C9 witness: the second of two ticks, simulating without a reset under an
\* unchanged setting, moved leavingTemp strictly closer to settingTemp.
C9_Witness ==
    /\ AfterTick
    /\ ticks = 2
    /\ preCoils[302]
    /\ ~preCoils[301]
    /\ chillerData.leavingTempSettings = preData.leavingTempSettings
    /\ preData.leavingTemp # DFrac(15, 1)
    /\ DCmp(ExactGap(chillerData.leavingTempSettings, chillerData.leavingTemp),
            ExactGap(chillerData.leavingTempSettings, preData.leavingTemp)) < 0

\* the order of a positive finite x and the fraction n / d: -1, 0, 1
RatCmp(x, n, d) ==
    IF x.e >= 0
    THEN BCmp(BShl(BMul(x.m, BFromNat(d)), x.e), BFromNat(n))
    ELSE BCmp(BMul(x.m, BFromNat(d)), BShl(BFromNat(n), -x.e))

\* x is within one thousandth of t / 1000
Approximately(x, t) ==
    /\ x.k = "fin"
    /\ x.s = 0
    /\ x.m # << >>
    /\ RatCmp(x, t - 1, 1000) >= 0
    /\ RatCmp(x, t + 1, 1000) <= 0

\* the first tick, from the defaults, with no client request before it
FirstTick ==
    /\ AfterTick
    /\ ticks = 1
    /\ requests = 0
    /\ preCoils = (300 :> TRUE) @@ (301 :> FALSE) @@ (302 :> TRUE)

\* C10 as stated: after the first tick from the defaults registers 0-1
\* decode to 7.0 and registers 4-5 to approximately 7.55.
C10_Original ==
    FirstTick =>
        /\ getFloat32Value(holdingRegisters, 0) = DInt(7)
        /\ Approximately(getFloat32Value(holdingRegisters, 4), 7550)

\* C10 amended: after the first tick from the defaults registers 0-1 decode
\* to 7.0 and registers 4-5 to approximately 7.45, which is
\* 7.5 + (7.0 - 7.5) * 0.1.
C10_FirstTick ==
    FirstTick =>
        /\ getFloat32Value(holdingRegisters, 0) = DInt(7)
        /\ Approximately(getFloat32Value(holdingRegisters, 4), 7450)

\* C10 witness: the first tick ran from the defaults and published a new
\* leavingTemp to registers 4-5.
C10_Witness ==
    /\ FirstTick
    /\ preData = InitialChillerData
    /\ <<holdingRegisters[4], holdingRegisters[5]>> # <<preRegisters[4], preRegisters[5]>>

\* C11: in a tick that began with coil 301 true and with registers 0-1
\* decoding to v, 0 < v < 30, the reset ran before the setting was read from
\* the registers: the tick saw the reset request, read v, and settingTemp
\* ends the tick equal to v, also when v differs from the 7.0 of the reset
\* and also when v is what an earlier tick published.
C11_ResetThenIngest ==
    (AfterTick /\ preCoils[301] /\ StrictlyInside(PreSetting)) =>
        /\ op.resetRequested
        /\ op.currentSetting = PreSetting
        /\ SettingAccepted(op.currentSetting)
        /\ chillerData.leavingTempSettings = PreSetting
        /\ getFloat32Value(preRegisters, 0) # DInt(7) =>
               chillerData.leavingTempSettings # DInt(7)

\* C11 witness: the second tick began with coil 301 true and with registers
\* 0-1 still holding the 15.0 the first tick had published, no client having
\* written them since, and it ended with settingTemp 15.0.
C11_Witness ==
    /\ AfterTick
    /\ ticks = 2
    /\ preCoils[301]
    /\ ~op.touched
    /\ PreSetting = DInt(15)
    /\ preData.leavingTempSettings = DInt(15)
    /\ chillerData.leavingTempSettings = DInt(15)

(***************************************************************************)
(* The callback line by line.  The callback is a synchronous function: it  *)
(* holds no await and starts no task, so the event loop gives the thread   *)
(* to the next callback, the timer's or a request's, only when it has      *)
(* returned.  running is the stack of the callbacks begun and not          *)
(* returned; each frame holds the position and the locals.                 *)
(***************************************************************************)

\* an event loop that starts a callback while another is running
Dispatchable_Always == TRUE

\* the event loop starts a callback only when no callback is running
Dispatchable == running = << >>

\* the frame on top of the stack is at position pc
At(pc) == running # << >> /\ Head(running).pc = pc

\* the frame on top of the stack replaced by frame
Continue(frame) == running' = <<frame>> \o Tail(running)

\* const publishEnabled = coils[300]; resetRequested = coils[301];
\* simulationEnabled = coils[302]
TickBegin ==
    /\ timers > 0
    /\ running' = <<[pc |-> "reset",
                     publishEnabled |-> coils[300],
                     resetRequested |-> coils[301],
                     simulationEnabled |-> coils[302],
                     reg1 |-> -1, reg2 |-> -1,
                     currentSetting |-> NaN, sine |-> NaN,
                     requests |-> requests, touched |-> touched]>> \o running
    /\ ticks' = ticks + 1
    /\ op' = [name |-> "tickBegin"]
    /\ Snapshot
    /\ UNCHANGED <<holdingRegisters, coils, chillerData, timers, requests,
                   touched, twin>>

\* if (resetRequested) { ... }
TickReset ==
    /\ At("reset")
    /\ chillerData' = HandleReset(chillerData, Head(running).resetRequested)
    /\ coils' = ClearReset(coils, Head(running).resetRequested)
    /\ Continue([Head(running) EXCEPT !.pc = "readHigh"])
    /\ UNCHANGED <<holdingRegisters, preRegisters, preCoils, preData, timers,
                   ticks, requests, op, touched, twin>>

\* getFloat32Value(0): holdingRegisters[startAddr] is evaluated
TickReadHigh ==
    /\ At("readHigh")
    /\ Continue([Head(running) EXCEPT !.pc = "readLow",
                                      !.reg1 = holdingRegisters[0]])
    /\ UNCHANGED <<holdingRegisters, coils, chillerData, preRegisters, preCoils,
                   preData, timers, ticks, requests, op, touched, twin>>

\* getFloat32Value(0): holdingRegisters[startAddr + 1] is evaluated and the
\* two cells are decoded
TickReadLow ==
    /\ At("readLow")
    /\ Continue([Head(running) EXCEPT
                     !.pc = "ingest",
                     !.reg2 = holdingRegisters[1],
                     !.currentSetting =
                         registersToFloat32(Head(running).reg1,
                                            holdingRegisters[1])])
    /\ UNCHANGED <<holdingRegisters, coils, chillerData, preRegisters, preCoils,
                   preData, timers, ticks, requests, op, touched, twin>>

\* if (currentSetting > 0 && currentSetting < 30) { ... }
TickIngest ==
    /\ At("ingest")
    /\ chillerData' = ReadSetting(chillerData, Head(running).currentSetting)
    /\ Continue([Head(running) EXCEPT !.pc = "simulate"])
    /\ UNCHANGED <<holdingRegisters, coils, preRegisters, preCoils, preData,
                   timers, ticks, requests, op, touched, twin>>

\* if (simulationEnabled) { ... }
TickSimulate(sine) ==
    /\ At("simulate")
    /\ chillerData' = Simulate(chillerData, Head(running).simulationEnabled, sine)
    /\ Continue([Head(running) EXCEPT !.pc = "publish", !.sine = sine])
    /\ UNCHANGED <<holdingRegisters, coils, preRegisters, preCoils, preData,
                   timers, ticks, requests, op, touched, twin>>

\* if (publishEnabled) { ... } and the callback returns
TickPublish ==
    /\ At("publish")
    /\ holdingRegisters' =
           Publish(holdingRegisters, chillerData, Head(running).publishEnabled)
    /\ op' = [name |-> "tick", sine |-> Head(running).sine,
              publishEnabled |-> Head(running).publishEnabled,
              resetRequested |-> Head(running).resetRequested,
              simulationEnabled |-> Head(running).simulationEnabled,
              currentSetting |-> Head(running).currentSetting,
              touched |-> Head(running).touched]
    /\ touched' = FALSE
    /\ running' = Tail(running)
    /\ UNCHANGED <<coils, chillerData, preRegisters, preCoils, preData, timers,
                   ticks, requests, twin>>

\* what the client sends while the callback is followed line by line: 15.0
\* or 35.0 to register 0, 0xFFFF to register 1, and the three coils
StepRegisterWrites == {<<0, 16752>>, <<0, 16908>>, <<1, 65535>>}
StepCoilWrites == {<<300, FALSE>>, <<301, TRUE>>, <<302, FALSE>>}

StepsNext ==
    \/ Initialized
    \/ Dispatchable /\ RequestsLeft
           /\ \E w \in StepRegisterWrites : SetRegister(w[1], w[2])
    \/ Dispatchable /\ RequestsLeft
           /\ \E w \in StepCoilWrites : SetCoil(w[1], w[2])
    \/ Dispatchable /\ TicksLeft /\ TickBegin
    \/ TickReset
    \/ TickReadHigh
    \/ TickReadLow
    \/ TickIngest
    \/ \E sine \in SineValues : TickSimulate(sine)
    \/ TickPublish

SpecSteps == Init /\ [][StepsNext]_vars

\* C12: the tick body is atomic with respect to the client and to other
\* ticks: at most one callback is running and one interval exists; while a
\* tick is running no request has been served since it began and the state
\* it began in is the one recorded; the cell it read from register 0 and the
\* cell it read from register 1 are the cells registers 0-1 held when it
\* began and still hold, together, when both have been read; and the tick
\* ends in the state the callback, taken as one step, leads to from the state
\* it began in.
C12_NoTornRead ==
    /\ Len(running) <= 1
    /\ timers <= 1
    /\ running # << >> =>
           /\ requests = Head(running).requests
           /\ op.name = "tickBegin"
           /\ Head(running).pc \in {"readLow", "ingest", "simulate", "publish"} =>
                  /\ Head(running).reg1 = preRegisters[0]
                  /\ Head(running).reg1 = holdingRegisters[0]
           /\ Head(running).pc \in {"ingest", "simulate", "publish"} =>
                  /\ Head(running).reg2 = preRegisters[1]
                  /\ Head(running).reg2 = holdingRegisters[1]
                  /\ Head(running).currentSetting =
                         getFloat32Value(holdingRegisters, 0)
    /\ AfterTick =>
           \E after \in {Callback(preRegisters, preCoils, preData, op.sine)} :
               /\ holdingRegisters = after.registers
               /\ coils = after.coils
               /\ chillerData = after.data
               /\ op.currentSetting = after.currentSetting

\* C12 witness: a tick, begun after the client had written 0x4170 to
\* register 0 and 0xFFFF to register 1, has read both cells.
C12_Witness ==
    /\ At("ingest")
    /\ Head(running).touched
    /\ Head(running).reg1 = 16752
    /\ Head(running).reg2 = 65535
    /\ requests >= 2

\* C13: a tick that began with coil 302 false applies no simulation step:
\* enteringTemp and leavingTemp end the tick with their values after the
\* tick's reset check, which are 12.0 and 7.5 when the tick began with coil
\* 301 true and their values from before the tick when it began with coil
\* 301 false.
C13_SimulationGating ==
    (AfterTick /\ ~preCoils[302]) =>
        /\ ~op.simulationEnabled
        /\ chillerData.enteringTemp =
               (IF preCoils[301] THEN DInt(12) ELSE preData.enteringTemp)
        /\ chillerData.leavingTemp =
               (IF preCoils[301] THEN DFrac(15, 1) ELSE preData.leavingTemp)

\* C13 witness: a tick with coils 301 and 302 false kept an enteringTemp and
\* a leavingTemp that an earlier tick had moved away from 12.0 and 7.5.
C13_Witness ==
    /\ AfterTick
    /\ ~preCoils[302]
    /\ ~preCoils[301]
    /\ preData.enteringTemp # DInt(12)
    /\ preData.leavingTemp # DFrac(15, 1)
    /\ chillerData.enteringTemp = preData.enteringTemp
    /\ chillerData.leavingTemp = preData.leavingTemp

(***************************************************************************)
(* The program with its timer and a client that writes the coils.          *)
(* setInterval fires the callback every 2000 ms for as long as the process *)
(* lives, and no callback of the program blocks the thread, so a firing    *)
(* that is due is not put off for ever.  A firing is the step that counts  *)
(* a tick, and it is due when the interval has been started.               *)
(***************************************************************************)
TimerFires == timers > 0 /\ TicksLeft /\ ticks' = ticks + 1

LiveNext ==
    \/ Initialized
    \/ RequestsLeft /\ \E w \in CoilWrites : SetCoil(w[1], w[2])
    \/ TicksLeft /\ \E sine \in SineValues : Tick(sine)

SpecLive == Init /\ [][LiveNext]_vars /\ WF_ticks(TimerFires)

\* C14: coil 301 reads false at the end of every tick, whatever it was at
\* the start; a tick that began with coil 301 true saw the request and ends
\* with the process values that follow from the defaults 7.0, 12.0, 7.5; and
\* whenever coil 301 is true and the timer has a firing left, a tick follows
\* that ends with coil 301 false.
C14_ResetServed ==
    /\ [](AfterTick => getCoil(coils, 301) = FALSE)
    /\ []((AfterTick /\ preCoils[301]) =>
             /\ op.resetRequested
             /\ chillerData =
                    Simulate(ReadSetting(InitialChillerData, op.currentSetting),
                             op.simulationEnabled, op.sine))
    /\ []((coils[301] /\ TicksLeft) => <>(AfterTick /\ ~coils[301]))

\* C14 witness: the client set coil 301 before the first tick, and the first
\* tick served the request and cleared the coil.
C14_Witness ==
    /\ AfterTick
    /\ ticks = 1
    /\ preCoils[301]
    /\ op.resetRequested
    /\ ~coils[301]

\* the state the loop starts in: registers 0-1, 2-3 and 4-5 hold the
\* single-precision encodings of 7.0, 12.0 and 7.5 (0x40E0 0000, 0x4140
\* 0000, 0x40F0 0000), registers 6..999 hold 0, the coils are 300 = true,
\* 301 = false, 302 = true and the process values 7.0, 12.0 and 7.5
DefaultsWritten ==
    /\ <<holdingRegisters[0], holdingRegisters[1]>> = float32ToRegisters(DInt(7))
    /\ <<holdingRegisters[2], holdingRegisters[3]>> = float32ToRegisters(DInt(12))
    /\ <<holdingRegisters[4], holdingRegisters[5]>> =
           float32ToRegisters(DFrac(15, 1))
    /\ <<holdingRegisters[0], holdingRegisters[1]>> = <<16608, 0>>
    /\ <<holdingRegisters[2], holdingRegisters[3]>> = <<16704, 0>>
    /\ <<holdingRegisters[4], holdingRegisters[5]>> = <<16624, 0>>
    /\ \A a \in 6..999 : holdingRegisters[a] = 0
    /\ DOMAIN holdingRegisters = 0..999
    /\ coils = (300 :> TRUE) @@ (301 :> FALSE) @@ (302 :> TRUE)
    /\ chillerData = [leavingTempSettings |-> DInt(7),
                      enteringTemp |-> DInt(12),
                      leavingTemp |-> DFrac(15, 1)]

\* C15: the loop is started at most once, and no tick runs and no request
\* is served before it is started; when it is started the defaults have
\* just been written over registers that held 0; and from then until the
\* first tick, as long as the client has written nothing (it has sent no
\* request, or one request that was a read), the registers, the coils and
\* the process values are the defaults.
C15_InitialState ==
    /\ timers \in {0, 1}
    /\ timers = 0 => (ticks = 0 /\ requests = 0 /\ op.name = "load")
    /\ op.name = "initialized" =>
           /\ timers = 1
           /\ ticks = 0
           /\ \A a \in 0..999 : preRegisters[a] = 0
           /\ DefaultsWritten
    /\ (timers = 1 /\ ticks = 0 /\ requests = 0) => DefaultsWritten
    /\ (timers = 1 /\ ticks = 0 /\ requests = 1
        /\ op.name \in {"getHoldingRegister", "getCoil"}) => DefaultsWritten

\* C15 witness: before the first tick the client read register 0 and got
\* 0x40E0, the high cell of 7.0.
C15_Witness ==
    /\ timers = 1
    /\ ticks = 0
    /\ requests = 1
    /\ op.name = "getHoldingRegister"
    /\ op.addr = 0
    /\ op.result = 16608

\* C16: in every reachable state settingTemp is a number strictly greater
\* than 0 and strictly less than 30.
C16_SettingInRange ==
    /\ chillerData.leavingTempSettings.k = "fin"
    /\ DGt(chillerData.leavingTempSettings, Zero)
    /\ DLt(chillerData.leavingTempSettings, Thirty)
    /\ StrictlyInside(chillerData.leavingTempSettings)

\* C16 witness: a tick read 35.0 from registers 0-1 while settingTemp was a
\* setting the client had given earlier, and settingTemp stayed what it was.
C16_Witness ==
    /\ AfterTick
    /\ op.currentSetting = DInt(35)
    /\ preData.leavingTempSettings = DInt(15)
    /\ chillerData.leavingTempSettings = DInt(15)

(***************************************************************************)
(* The program with a client that sets and spoils the setting.  For        *)
(* registers 0-1 to hold a rejected value at the end of a tick while        *)
(* settingTemp is a setting of the client, and for a reset to follow, the   *)
(* client has to send four requests (a setting, coil 300 off, a rejected    *)
(* value, coil 301 on) and the timer has to fire three times; so the       *)
(* client sends these requests only and the run is one request and one     *)
(* tick longer than the bounds.                                             *)
(***************************************************************************)

\* 15.0 and 35.0 to register 0
SettingRegisterWrites == {<<0, 16752>>, <<0, 16908>>}
\* publishing off, reset
SettingCoilWrites == {<<300, FALSE>>, <<301, TRUE>>}

SettingNext ==
    \/ Initialized
    \/ requests < MaxRequests + 1
           /\ \E w \in SettingRegisterWrites : SetRegister(w[1], w[2])
    \/ requests < MaxRequests + 1
           /\ \E w \in SettingCoilWrites : SetCoil(w[1], w[2])
    \/ ticks < MaxTicks + 1 /\ \E sine \in SineValues : Tick(sine)

SpecSetting == Init /\ [][SettingNext]_vars

\* at the end of a tick, registers 0-1 decoding to a value strictly inside
\* (0, 30) hold settingTemp
RegistersAgree ==
    AfterTick =>
        (StrictlyInside(getFloat32Value(holdingRegisters, 0)) =>
             chillerData.leavingTempSettings = getFloat32Value(holdingRegisters, 0))

\* the last tick left settingTemp as it was
SettingKept == chillerData.leavingTempSettings = preData.leavingTempSettings

\* C17 as stated: at the end of every tick registers 0-1, when they decode to
\* a value strictly inside (0, 30), hold settingTemp; and every tick after
\* the first that began with registers 0-1 not written by a client since the
\* tick before leaves settingTemp as it was, also when it performs a reset.
C17_Original ==
    /\ RegistersAgree
    /\ (AfterTick /\ ticks >= 2 /\ ~op.touched) => SettingKept

\* C17 amended: at the end of every tick registers 0-1, when they decode to a
\* value strictly inside (0, 30), hold settingTemp; a tick that began with
\* registers 0-1 not written by a client since the tick before leaves
\* settingTemp as it was when registers 0-1 decoded to a value strictly
\* inside (0, 30) at its start, also when it performs a reset, and when it
\* performs no reset; when it performs a reset and registers 0-1 decoded to a
\* value outside (0, 30), it leaves settingTemp at 7.0.
C17_SettingKept ==
    /\ RegistersAgree
    /\ (AfterTick /\ ~op.touched /\ StrictlyInside(PreSetting)) =>
           (SettingKept /\ chillerData.leavingTempSettings = PreSetting)
    /\ (AfterTick /\ ~op.touched /\ ~preCoils[301]) => SettingKept
    /\ (AfterTick /\ ~op.touched /\ preCoils[301] /\ ~StrictlyInside(PreSetting)) =>
           chillerData.leavingTempSettings = DInt(7)

\* C17 witness: with publishing off, registers 0-1 held 35.0 through a tick
\* while settingTemp was 15.0; the client then asked for a reset and wrote no
\* register, and the next tick took settingTemp from 15.0 to 7.0.
C17_Witness ==
    /\ AfterTick
    /\ ticks >= 2
    /\ ~op.touched
    /\ preCoils[301]
    /\ ~preCoils[300]
    /\ PreSetting = DInt(35)
    /\ preData.leavingTempSettings = DInt(15)
    /\ chillerData.leavingTempSettings = DInt(7)

\* C18: a tick leaves registers 6..999 and coils 300 and 302 as they were;
\* it changes a register among 0..5 only when it began with coil 300 true,
\* and it changes coil 301 only to false; the registers stay 1000 and the
\* coils three.
C18_TickFrame ==
    AfterTick =>
        /\ DOMAIN holdingRegisters = 0..999
        /\ \A a \in 6..999 : holdingRegisters[a] = preRegisters[a]
        /\ (\E a \in 0..5 : holdingRegisters[a] # preRegisters[a]) => preCoils[300]
        /\ DOMAIN coils = {300, 301, 302}
        /\ coils[300] = preCoils[300]
        /\ coils[302] = preCoils[302]
        /\ coils[301] # preCoils[301] => coils[301] = FALSE

\* C18 witness: a tick that published and cleared coil 301 left the 0xFFFF a
\* client had written to register 999.
C18_Witness ==
    /\ AfterTick
    /\ preCoils[300]
    /\ preCoils[301]
    /\ ~coils[301]
    /\ \E a \in 0..5 : holdingRegisters[a] # preRegisters[a]
    /\ preRegisters[999] = 65535
    /\ holdingRegisters[999] = 65535

(***************************************************************************)
(* Two runs of the program side by side.  The two receive the same         *)
(* requests at the same moments and their timers fire together with the    *)
(* same clock; only the value of a write to a register with address 2 or   *)
(* more may differ.  The first run is the program's state, the second is   *)
(* twin.                                                                    *)
(***************************************************************************)
InitPair ==
    /\ holdingRegisters = InitialRegisters
    /\ coils = InitialCoils
    /\ chillerData = InitialChillerData
    /\ preRegisters = InitialRegisters
    /\ preCoils = InitialCoils
    /\ preData = InitialChillerData
    /\ timers = 0
    /\ ticks = 0
    /\ requests = 0
    /\ op = [name |-> "load"]
    /\ touched = FALSE
    /\ running = << >>
    /\ twin = [registers |-> InitialRegisters, coils |-> InitialCoils,
               data |-> InitialChillerData]

\* serverTCP.on("initialized") in both runs
PairInitialized ==
    /\ timers = 0
    /\ holdingRegisters' = initializeDefaultValues(holdingRegisters, chillerData)
    /\ twin' = [twin EXCEPT
                    !.registers = initializeDefaultValues(twin.registers, twin.data)]
    /\ timers' = timers + 1
    /\ op' = [name |-> "initialized"]
    /\ Snapshot
    /\ UNCHANGED <<coils, chillerData, ticks, requests, touched, running>>

\* setRegister(addr, value) in the first run, setRegister(addr, other) in the
\* second
PairSetRegister(addr, value, other) ==
    /\ timers > 0
    /\ holdingRegisters' = setRegister(holdingRegisters, addr, value)
    /\ twin' = [twin EXCEPT !.registers = setRegister(twin.registers, addr, other)]
    /\ requests' = requests + 1
    /\ op' = [name |-> "setRegister", addr |-> addr, value |-> value,
              other |-> other]
    /\ touched' = (touched \/ addr \in {0, 1})
    /\ Snapshot
    /\ UNCHANGED <<coils, chillerData, timers, ticks, running>>

\* setCoil(addr, value) in both runs
PairSetCoil(addr, value) ==
    /\ timers > 0
    /\ coils' = setCoil(coils, addr, value)
    /\ twin' = [twin EXCEPT !.coils = setCoil(twin.coils, addr, value)]
    /\ requests' = requests + 1
    /\ op' = [name |-> "setCoil", addr |-> addr, value |-> value]
    /\ Snapshot
    /\ UNCHANGED <<holdingRegisters, chillerData, timers, ticks, touched, running>>

\* the timers of both runs fire, the clocks giving the same sine
PairTick(sine) ==
    /\ timers > 0
    /\ \E after \in {Callback(holdingRegisters, coils, chillerData, sine)} :
           /\ coils' = after.coils
           /\ chillerData' = after.data
           /\ holdingRegisters' = after.registers
           /\ op' = [name |-> "tick", sine |-> sine,
                     publishEnabled |-> after.publishEnabled,
                     resetRequested |-> after.resetRequested,
                     simulationEnabled |-> after.simulationEnabled,
                     currentSetting |-> after.currentSetting,
                     touched |-> touched]
    /\ \E after \in {Callback(twin.registers, twin.coils, twin.data, sine)} :
           twin' = [registers |-> after.registers, coils |-> after.coils,
                    data |-> after.data]
    /\ ticks' = ticks + 1
    /\ touched' = FALSE
    /\ Snapshot
    /\ UNCHANGED <<timers, requests, running>>

\* address, value in the first run, value in the second: the same value to
\* registers 0 and 1 (15.0, 0xFFFF), different values to registers 2, 3 and
\* 999 and to address 1000
PairRegisterWrites ==
    {<<0, 16752, 16752>>, <<1, 65535, 65535>>,
     <<2, 16752, 16908>>, <<3, 0, 65535>>, <<999, 65535, 0>>, <<1000, 5, 6>>}
PairCoilWrites ==
    {<<300, FALSE>>, <<300, TRUE>>, <<301, TRUE>>, <<302, FALSE>>}

PairNext ==
    \/ PairInitialized
    \/ RequestsLeft
           /\ \E w \in PairRegisterWrites : PairSetRegister(w[1], w[2], w[3])
    \/ RequestsLeft /\ \E w \in PairCoilWrites : PairSetCoil(w[1], w[2])
    \/ TicksLeft /\ \E sine \in SineValues : PairTick(sine)

SpecPair == InitPair /\ [][PairNext]_vars

\* the two runs agree on the process values, the coils and registers 0-1
SameSimulation ==
    /\ chillerData = twin.data
    /\ coils = twin.coils
    /\ holdingRegisters[0] = twin.registers[0]
    /\ holdingRegisters[1] = twin.registers[1]

\* C19: two runs that differ only in the values the client writes to
\* registers with address 2 or more agree, after every tick and in every
\* state between, on settingTemp, enteringTemp, leavingTemp, on the coils and
\* on registers 0-1; a write to such a register changes none of these.
C19_NonInterference ==
    /\ SameSimulation
    /\ (op.name = "setRegister" /\ op.addr >= 2) =>
           /\ chillerData = preData
           /\ coils = preCoils
           /\ holdingRegisters[0] = preRegisters[0]
           /\ holdingRegisters[1] = preRegisters[1]

\* C19 witness: after a tick the two runs hold different cells in a register
\* among 2..5, which the tick did not publish, and the same process values,
\* settingTemp being a setting of the client.
C19_Witness ==
    /\ AfterTick
    /\ \E a \in 2..5 : holdingRegisters[a] # twin.registers[a]
    /\ chillerData.leavingTempSettings = DInt(15)
    /\ SameSimulation

=============================================================================
